---- MODULE Spec2Model ----
(***************************************************************************)
(* Override & Reconciliation Engine of the IICS migration scripts.         *)
(*                                                                         *)
(*   - process_content / apply_mappings  (Explore/scripts/apply_mappings)  *)
(*   - main / delete_object              (scripts/auto_cleanup,            *)
(*                                        Explore/scripts/cleanup_target)  *)
(*                                                                         *)
(* Text is a sequence of characters.  A file whose text is a JSON document *)
(* is kept as its syntax tree together with its layout (fmt); connection   *)
(* and agent names are words over the letters a, b, c, so a literal        *)
(* str.replace over the text of a JSON document acts inside its string     *)
(* tokens (keys and values) and nowhere else.                              *)
(***************************************************************************)
EXTENDS Integers, Sequences, FiniteSets, TLC

VARIABLES
    \* ---- process_content applied twice (SpecRewrite)
    rw_pc,          \* "start" | "once" | "twice"
    content,        \* the content handed to process_content
    conn_map,       \* dict sourceConnectionName -> targetConnectionName, in insertion order
    agent_map,      \* list of agentOverrides entries
    out1,           \* process_content(content)
    out2,           \* process_content(out1)
    \* ---- one run of a cleanup script, and its re-run (SpecCleanup)
    script,           \* "auto_cleanup" (scripts/auto_cleanup.py) | "cleanup_target"
    cl_pc,            \* position in main, or how it ended: "done" | "returned" | "exit1" | "crashed"
    run,              \* 1: first run of the script, 2: its re-run
    manifest,         \* exportMetadata.v2.json: "present" | "missing" | "unreadable"
    expected_objects, \* the (type, name) pairs read from the manifest
    remote,           \* the objects of the target environment, in the order it lists them
    remote_objects,   \* the list main iterates over
    inventory,        \* every entry listed during this run
    type_idx,         \* cleanup_target: position in OBJECT_TYPES
    idx,              \* position in remote_objects
    deleted,          \* the deleted counter
    requests,         \* the DELETE requests issued during this run, in order
    reports,          \* the per-entry messages printed during this run, in order
    first_run,        \* what the first run did, kept for the re-run
    fetch_failed,     \* the types whose listing failed during this run
    touched,          \* what other actors did to listed objects during this run
    \* ---- one run of apply_mappings (SpecApply)
    ap_pc,            \* position in apply_mappings
    config,           \* the file at config_path
    workspace,        \* the files of workspace_dir, in the order of os.walk
    workspace0,       \* the files as they were when the run began
    file_idx,         \* position in the walk
    modified_count,   \* the modified_count counter
    written,          \* positions of the files opened for writing so far
    updated,          \* positions of the files reported as updated
    temp_dirs,        \* the scratch directories that exist
    temp,             \* the files of the scratch directory of the current archive
    z_modified,       \* z_modified of the current archive
    has_changed,      \* has_changed of the current file
    error,            \* the exception that is propagating, or "none"
    \* ---- collect_objects of build_package.py (SpecCollect)
    co_pc,            \* position in collect_objects
    explore,          \* the Explore folder: missing, or its file names in the order of os.walk
    co_idx,           \* position in the walk
    co_objects,       \* the objects list of collect_objects
    skipped           \* positions of the files reported as unrecognized

rwVars == <<rw_pc, content, out1, out2>>
mapVars == <<conn_map, agent_map>>
clVars == <<script, cl_pc, run, manifest, expected_objects, remote, remote_objects, inventory,
            type_idx, idx, deleted, requests, reports, first_run, fetch_failed, touched>>

apVars == <<ap_pc, config, workspace, workspace0, file_idx, modified_count, written,
            updated, temp_dirs, temp, z_modified, has_changed, error>>

coVars == <<co_pc, explore, co_idx, co_objects, skipped>>

vars == <<rwVars, mapVars, clVars, apVars, coVars>>

None == [kind |-> "none"]

(***************************************************************************)
(* Strings                                                                 *)
(***************************************************************************)
\* a character outside ASCII, as written in a file, and its \uXXXX escape
RawU == "u_raw"
EscU == "u_esc"

\* old occurs in s (Python: old in s)
Occurs(old, s) ==
    \E i \in 1..(Len(s) - Len(old) + 1) : SubSeq(s, i, i + Len(old) - 1) = old

\* str.replace(old, new, 1): the first occurrence alone
RECURSIVE ReplaceFirstOnly(_, _, _)
ReplaceFirstOnly(s, old, new) ==
    IF Len(s) < Len(old) \/ Len(old) = 0 THEN s
    ELSE IF SubSeq(s, 1, Len(old)) = old
         THEN new \o SubSeq(s, Len(old) + 1, Len(s))
         ELSE <<Head(s)>> \o ReplaceFirstOnly(Tail(s), old, new)

\* str.replace(old, new): leftmost non-overlapping occurrences, all of them
RECURSIVE Replace(_, _, _)
Replace(s, old, new) ==
    IF Len(s) < Len(old) \/ Len(old) = 0 THEN s
    ELSE IF SubSeq(s, 1, Len(old)) = old
         THEN new \o Replace(SubSeq(s, Len(old) + 1, Len(s)), old, new)
         ELSE <<Head(s)>> \o Replace(Tail(s), old, new)

(***************************************************************************)
(* JSON documents: a tagged variant.  kv is the list of members of an      *)
(* object in the order they are written.                                   *)
(***************************************************************************)
Str(s)     == [t |-> "str", s |-> s]
Num        == [t |-> "num"]
KV(k, v)   == [k |-> k, v |-> v]
Obj(kv)    == [t |-> "obj", kv |-> kv]
Arr(items) == [t |-> "arr", items |-> items]

JsonText(fmt, doc) == [kind |-> "json", fmt |-> fmt, doc |-> doc]
PlainText(s)       == [kind |-> "text", s |-> s]

AGENT_KEYS == {<<"runtimeEnvironmentName">>, <<"agentGroupName">>, <<"agentGroup">>}

\* name in content, for the text of a whole file
RECURSIVE OccursInDoc(_, _)
OccursInDoc(name, d) ==
    CASE d.t = "str" -> Occurs(name, d.s)
      [] d.t = "obj" -> \E i \in DOMAIN d.kv :
                            Occurs(name, d.kv[i].k) \/ OccursInDoc(name, d.kv[i].v)
      [] d.t = "arr" -> \E i \in DOMAIN d.items : OccursInDoc(name, d.items[i])
      [] OTHER -> FALSE

OccursIn(name, c) ==
    IF c.kind = "json" THEN OccursInDoc(name, c.doc) ELSE Occurs(name, c.s)

\* content.replace(old, new) over the text of a JSON document
RECURSIVE ReplaceInDoc(_, _, _)
ReplaceInDoc(d, old, new) ==
    CASE d.t = "str" -> Str(Replace(d.s, old, new))
      [] d.t = "obj" -> Obj([i \in DOMAIN d.kv |->
                              KV(Replace(d.kv[i].k, old, new),
                                 ReplaceInDoc(d.kv[i].v, old, new))])
      [] d.t = "arr" -> Arr([i \in DOMAIN d.items |-> ReplaceInDoc(d.items[i], old, new)])
      [] OTHER -> d

ReplaceIn(c, old, new) ==
    IF c.kind = "json" THEN JsonText(c.fmt, ReplaceInDoc(c.doc, old, new))
    ELSE PlainText(Replace(c.s, old, new))

\* for dev_conn, tgt_conn in conn_map.items(): if dev_conn in content: replace
RECURSIVE ReplaceConnections(_, _)
ReplaceConnections(c, cm) ==
    IF cm = <<>> THEN c
    ELSE LET p == Head(cm) IN
         ReplaceConnections(IF OccursIn(p.src, c) THEN ReplaceIn(c, p.src, p.tgt) ELSE c,
                            Tail(cm))

\* the string a JSON string token denotes: \uXXXX is the character itself
Unescape(s) == [i \in DOMAIN s |-> IF s[i] = EscU THEN RawU ELSE s[i]]
\* json.dumps, ensure_ascii: a character outside ASCII is written as its escape
Escape(s)   == [i \in DOMAIN s |-> IF s[i] = RawU THEN EscU ELSE s[i]]

\* d[k] = v on a dict kept in insertion order
DictPut(d, k, v) ==
    IF \E i \in DOMAIN d : d[i].k = k
    THEN [i \in DOMAIN d |-> IF d[i].k = k THEN KV(k, v) ELSE d[i]]
    ELSE Append(d, KV(k, v))

RECURSIVE DictOf(_, _)
DictOf(d, pairs) ==
    IF pairs = <<>> THEN d
    ELSE DictOf(DictPut(d, Head(pairs).k, Head(pairs).v), Tail(pairs))

\* json.loads of a document: objects become dicts (a repeated key keeps its
\* first position and its last value)
RECURSIVE LoadsDoc(_)
LoadsDoc(d) ==
    CASE d.t = "str" -> Str(Unescape(d.s))
      [] d.t = "obj" -> Obj(DictOf(<<>>, [i \in DOMAIN d.kv |->
                                  KV(Unescape(d.kv[i].k), LoadsDoc(d.kv[i].v))]))
      [] d.t = "arr" -> Arr([i \in DOMAIN d.items |-> LoadsDoc(d.items[i])])
      [] OTHER -> d

\* json.loads(content): raises on text that is no JSON document
Loads(c) ==
    IF c.kind = "json" THEN [ok |-> TRUE, data |-> LoadsDoc(c.doc)]
    ELSE [ok |-> FALSE]

RECURSIVE DumpsDoc(_)
DumpsDoc(d) ==
    CASE d.t = "str" -> Str(Escape(d.s))
      [] d.t = "obj" -> Obj([i \in DOMAIN d.kv |->
                              KV(Escape(d.kv[i].k), DumpsDoc(d.kv[i].v))])
      [] d.t = "arr" -> Arr([i \in DOMAIN d.items |-> DumpsDoc(d.items[i])])
      [] OTHER -> d

\* json.dumps(data, indent=4)
Dumps(data) == JsonText("indent4", DumpsDoc(data))

(***************************************************************************)
(* Agent overrides: an entry is a dict; a field may be absent.             *)
(***************************************************************************)
AM(s, t) == [sourceAgentName |-> s, targetAgentName |-> t]
HasSource(m) == "sourceAgentName" \in DOMAIN m
HasTarget(m) == "targetAgentName" \in DOMAIN m

\* for mapping in agent_map: if v == mapping['sourceAgentName']: ... break
RECURSIVE AgentLookup(_, _)
AgentLookup(v, am) ==
    IF am = <<>> THEN [r |-> "none"]
    ELSE LET m == Head(am) IN
         IF ~HasSource(m) THEN [r |-> "KeyError"]
         ELSE IF v = m.sourceAgentName
              THEN (IF HasTarget(m) THEN [r |-> "hit", tgt |-> m.targetAgentName]
                    ELSE [r |-> "KeyError"])
              ELSE AgentLookup(v, Tail(am))

\* replace_agents(obj), when no lookup raises
RECURSIVE replace_agents(_, _)
replace_agents(obj, am) ==
    CASE obj.t = "obj" ->
            Obj([i \in DOMAIN obj.kv |->
                  LET k == obj.kv[i].k
                      v == obj.kv[i].v
                  IN  IF k \in AGENT_KEYS
                      THEN IF v.t = "str" /\ AgentLookup(v.s, am).r = "hit"
                           THEN KV(k, Str(AgentLookup(v.s, am).tgt))
                           ELSE obj.kv[i]
                      ELSE KV(k, replace_agents(v, am))])
      [] obj.t = "arr" -> Arr([i \in DOMAIN obj.items |-> replace_agents(obj.items[i], am)])
      [] OTHER -> obj

\* replace_agents(obj) raises KeyError: some lookup reads an absent field
RECURSIVE AgentsRaise(_, _)
AgentsRaise(obj, am) ==
    CASE obj.t = "obj" ->
            \E i \in DOMAIN obj.kv :
                LET k == obj.kv[i].k
                    v == obj.kv[i].v
                IN  IF k \in AGENT_KEYS
                    THEN v.t = "str" /\ AgentLookup(v.s, am).r = "KeyError"
                    ELSE AgentsRaise(v, am)
      [] obj.t = "arr" -> \E i \in DOMAIN obj.items : AgentsRaise(obj.items[i], am)
      [] OTHER -> FALSE

\* except: for mapping in agent_map: content = content.replace(source, target)
RECURSIVE ReplaceAgentsLiteral(_, _)
ReplaceAgentsLiteral(c, am) ==
    IF am = <<>> THEN c
    ELSE ReplaceAgentsLiteral(
             ReplaceIn(c, Head(am).sourceAgentName, Head(am).targetAgentName), Tail(am))

Malformed(am) == \E i \in DOMAIN am : ~HasSource(am[i]) \/ ~HasTarget(am[i])

\* process_content(content, conn_map, agent_map):
\* [raised |-> the call ends in an uncaught KeyError, out |-> its return value]
process_content(c, cm, am) ==
    LET c1 == ReplaceConnections(c, cm)
        p  == Loads(c1)
    IN  IF p.ok /\ ~AgentsRaise(p.data, am)
        THEN [raised |-> FALSE, out |-> Dumps(replace_agents(p.data, am))]
        ELSE IF Malformed(am)
             THEN [raised |-> TRUE, out |-> c1]
             ELSE [raised |-> FALSE, out |-> ReplaceAgentsLiteral(c1, am)]

(***************************************************************************)
(* Inputs of the rewrite                                                   *)
(***************************************************************************)
A          == <<"a">>
B          == <<"b">>
C          == <<"c">>
AB         == <<"a", "b">>
RTE        == <<"runtimeEnvironmentName">>
GROUP      == <<"agentGroup">>
GROUPNAME  == <<"agentGroupName">>
KEY        == <<"k">>

SourceNames == {A, B, AB}
TargetNames == {A, B, AB, C}
Values      == {A, B, AB, C, <<"a", "b", "b">>}

MaxConn == 2

ConnPair(s, t) == [src |-> s, tgt |-> t]
ConnPairs == {ConnPair(s, t) : s \in SourceNames, t \in TargetNames}

\* dicts of at most MaxConn connection pairs: sources are distinct
ConnMaps ==
    UNION {{cm \in [1..n -> ConnPairs] :
                \A i, j \in 1..n : i # j => cm[i].src # cm[j].src} : n \in 0..MaxConn}

AgentMaps ==
    { <<>>, <<AM(A, C)>>, <<AM(B, A)>>, <<AM(A, B), AM(B, C)>>, <<AM(A, B), AM(A, C)>>,
      <<AM(AB, A)>> }

Docs ==
    {Obj(<<KV(k, Str(v))>>) : k \in {RTE, KEY}, v \in Values}
    \cup { Obj(<<KV(A, Num), KV(B, Str(A))>>),
           Obj(<<KV(KEY, Num), KV(KEY, Str(A))>>),
           Obj(<<KV(GROUP, Obj(<<KV(GROUPNAME, Str(A))>>))>>),
           Obj(<<KV(KEY, Arr(<<Obj(<<KV(RTE, Str(A))>>), Str(B)>>)), KV(GROUP, Str(B))>>),
           Obj(<<KV(KEY, Str(<<RawU>>))>>),
           Obj(<<KV(RTE, Num), KV(KEY, Str(C))>>),
           Num }

Formats == {"indent4", "compact"}

Contents ==
    {JsonText(f, d) : f \in Formats, d \in Docs}
    \cup {PlainText(s) : s \in Values \cup {<<>>, <<"x", "a">>}}

(***************************************************************************)
(* The cleanup scripts: the remote environment and the type tables         *)
(***************************************************************************)
\* TYPE_TO_ENDPOINT of auto_cleanup.py and OBJECT_TYPES of cleanup_target.py,
\* as the lists of their keys in the order of the dict
TYPE_TO_ENDPOINT ==
    <<"MTT", "TASKFLOW", "MAPPING", "DTEMPLATE", "Connection", "AgentGroup", "Folder", "Project">>
OBJECT_TYPES == <<"MTT", "TASKFLOW", "MAPPING", "DTEMPLATE">>

Range(f) == {f[i] : i \in DOMAIN f}

\* the keys of the table that script deletes through
EndpointTypes(sc) ==
    IF sc = "auto_cleanup" THEN Range(TYPE_TO_ENDPOINT) ELSE Range(OBJECT_TYPES)

Entry(t, n, i) == [type |-> t, name |-> n, id |-> i]
Identity(e) == <<e.type, e.name>>

\* obj_name and obj_id: an item of a listing may lack its name or its id
HasNameAndId(e) == e.name # "" /\ e.id # 0

\* the objects a target environment may hold, one of them listed without a name
Universe ==
    { Entry("MTT", "a", 1), Entry("MTT", "b", 2), Entry("TASKFLOW", "a", 3),
      Entry("Folder", "root", 4), Entry("PROFILE", "p", 5), Entry("TASKFLOW", "", 6) }

MaxRemote == 3

\* the environments: at most MaxRemote objects, in any listing order
Remotes ==
    UNION {{r \in [1..n -> Universe] : \A i, j \in 1..n : i # j => r[i] # r[j]}
              : n \in 0..MaxRemote}

\* the manifests: sets of identities, one of them of no object of any environment
ExpectedSets == SUBSET {<<"MTT", "a">>, <<"Folder", "root">>, <<"MTT", "z">>}

CleanupIdle ==
    /\ script = "auto_cleanup"
    /\ cl_pc = "idle"
    /\ run = 0
    /\ manifest = "present"
    /\ expected_objects = {}
    /\ remote = <<>>
    /\ remote_objects = <<>>
    /\ inventory = <<>>
    /\ type_idx = 0
    /\ idx = 0
    /\ deleted = 0
    /\ requests = <<>>
    /\ reports = <<>>
    /\ first_run = None
    /\ fetch_failed = {}
    /\ touched = {}

RewriteIdle ==
    /\ rw_pc = "idle"
    /\ content = None
    /\ out1 = None
    /\ out2 = None

ApplyIdle ==
    /\ ap_pc = "idle"
    /\ config = None
    /\ workspace = <<>>
    /\ workspace0 = <<>>
    /\ file_idx = 0
    /\ modified_count = 0
    /\ written = {}
    /\ updated = {}
    /\ temp_dirs = {}
    /\ temp = <<>>
    /\ z_modified = FALSE
    /\ has_changed = FALSE
    /\ error = "none"

CollectIdle ==
    /\ co_pc = "idle"
    /\ explore = [kind |-> "missing"]
    /\ co_idx = 0
    /\ co_objects = <<>>
    /\ skipped = {}

(***************************************************************************)
(* SpecCleanup: main of auto_cleanup.py and of cleanup_target.py           *)
(***************************************************************************)
InitCleanup ==
    /\ script \in {"auto_cleanup", "cleanup_target"}
    /\ cl_pc = "manifest"
    /\ run = 1
    /\ manifest \in {"present", "missing", "unreadable"}
    /\ expected_objects \in (IF manifest = "present" THEN ExpectedSets ELSE {{}})
    /\ remote \in Remotes
    /\ remote_objects = <<>>
    /\ inventory = <<>>
    /\ type_idx = 0
    /\ idx = 0
    /\ deleted = 0
    /\ requests = <<>>
    /\ reports = <<>>
    /\ first_run = None
    /\ fetch_failed = {}
    /\ touched = {}
    /\ RewriteIdle
    /\ ApplyIdle
    /\ CollectIdle
    /\ conn_map = <<>>
    /\ agent_map = <<>>

\* cleanup_target: the position after the listing of type number ti is used up
AfterType(ti) == IF ti < Len(OBJECT_TYPES) THEN "list_type" ELSE "done"

\* an empty expected set does not stop main: it goes on to the listing
OnEmptyExpectedGoOn == "list"

\* if not expected_objects: sys.exit(1)
OnEmptyExpected == "exit1"

\* the expected objects are read.  auto_cleanup: json.load of an unreadable
\* manifest raises, and an empty set ends the run with status 1.  cleanup_target:
\* get_package_objects gives the empty set for a missing or unreadable manifest
\* and main goes on with whatever it gave
Manifest ==
    /\ cl_pc = "manifest"
    /\ IF script = "auto_cleanup"
       THEN /\ cl_pc' = IF manifest = "unreadable" THEN "crashed"
                        ELSE IF expected_objects = {} THEN OnEmptyExpected ELSE "list"
            /\ type_idx' = type_idx
       ELSE /\ cl_pc' = "list_type"
            /\ type_idx' = 1
    /\ UNCHANGED <<script, run, manifest, expected_objects, remote, remote_objects, inventory,
                   idx, deleted, requests, reports, first_run, fetch_failed,
                   touched, rwVars, mapVars, apVars, coVars>>

\* get_remote_assets_via_cli: every object of the environment, or [] when the
\* CLI fails; main falls back to the API on an empty list
ListCli ==
    /\ cl_pc = "list"
    /\ \E ok \in BOOLEAN :
          LET objects == IF ok THEN remote ELSE <<>> IN
          /\ remote_objects' = objects
          /\ inventory' = objects
          /\ cl_pc' = IF Len(objects) = 0 THEN "list_api" ELSE "loop"
    /\ idx' = 1
    /\ UNCHANGED <<script, run, manifest, expected_objects, remote, type_idx, deleted, requests,
                   reports, first_run, fetch_failed, touched, rwVars, mapVars, apVars, coVars>>

\* the items the API returns for the types of the list types, in that order,
\* whose listing succeeded (okTypes)
RECURSIVE ApiItems(_, _, _)
ApiItems(types, okTypes, env) ==
    IF types = <<>> THEN <<>>
    ELSE (IF Head(types) \in okTypes
          THEN SelectSeq(env, LAMBDA e : e.type = Head(types))
          ELSE <<>>)
         \o ApiItems(Tail(types), okTypes, env)

\* the objects built from them: those that carry a name and an id
ApiObjects(types, okTypes, env) == SelectSeq(ApiItems(types, okTypes, env), HasNameAndId)

\* get_remote_assets_via_api, and main's return on an empty list.  The GET of
\* a type outside okTypes fails (exception, status other than 200, body that is
\* no JSON): the except clause and the continue go on with the next type.  A
\* failed listing of a type the environment holds no object of cannot be told
\* from an empty one and is not recorded
ListApi ==
    /\ cl_pc = "list_api"
    /\ \E okTypes \in SUBSET {e.type : e \in Range(remote)} :
          LET objects == ApiObjects(TYPE_TO_ENDPOINT, okTypes, remote) IN
          /\ remote_objects' = objects
          /\ inventory' = ApiItems(TYPE_TO_ENDPOINT, okTypes, remote)
          /\ fetch_failed' = ({e.type : e \in Range(remote)} \cap Range(TYPE_TO_ENDPOINT)) \ okTypes
          /\ cl_pc' = IF Len(objects) = 0 THEN "returned" ELSE "loop"
    /\ idx' = 1
    /\ UNCHANGED <<script, run, manifest, expected_objects, remote, type_idx, deleted, requests,
                   reports, first_run, touched, rwVars, mapVars, apVars, coVars>>

\* a response body that is no JSON: resp.json() is outside the try block of
\* list_all_objects, the exception leaves main
OnBadBody == "crashed"

\* cleanup_target: list_all_objects of the type at type_idx, one item a page.
\* A page that fails (exception or status other than 200) ends the listing
\* with the pages read so far; a body that is no JSON raises
ListType ==
    /\ cl_pc = "list_type"
    /\ LET full == SelectSeq(remote, LAMBDA e : e.type = OBJECT_TYPES[type_idx]) IN
       \E n \in 0..Len(full), parsed \in BOOLEAN :
          LET existing == SubSeq(full, 1, n) IN
          IF ~parsed
          THEN /\ cl_pc' = OnBadBody
               /\ fetch_failed' = fetch_failed \cup {OBJECT_TYPES[type_idx]}
               /\ UNCHANGED <<remote_objects, inventory, type_idx>>
          ELSE /\ remote_objects' = existing
               /\ inventory' = inventory \o existing
               /\ fetch_failed' = IF n < Len(full)
                                  THEN fetch_failed \cup {OBJECT_TYPES[type_idx]}
                                  ELSE fetch_failed
               /\ IF Len(existing) = 0
                  THEN /\ cl_pc' = AfterType(type_idx)
                       /\ type_idx' = IF type_idx < Len(OBJECT_TYPES) THEN type_idx + 1
                                      ELSE type_idx
                  ELSE /\ cl_pc' = "loop"
                       /\ type_idx' = type_idx
    /\ idx' = 1
    /\ UNCHANGED <<script, run, manifest, expected_objects, remote, deleted, requests, reports,
                   first_run, touched, rwVars, mapVars, apVars, coVars>>

\* the pair built the wrong way round: (obj_name, obj_type) not in expected_objects
IsOrphanSwapped(obj, expected) == <<obj.name, obj.type>> \notin expected

\* (obj_type, obj_name) not in expected_objects
IsOrphan(obj, expected) == Identity(obj) \notin expected

\* the object with this id is kept under another name
Renamed(env, id) ==
    [i \in DOMAIN env |-> IF env[i].id = id THEN [env[i] EXCEPT !.name = "trash"] ELSE env[i]]

\* the object with this id is gone from the environment
Removed(env, id) == SelectSeq(env, LAMBDA e : e.id # id)

Report(obj, outcome) == [id |-> obj.id, outcome |-> outcome]

\* what the DELETE request can answer: 200/204 only for an object that exists
DeleteOutcomes(obj) ==
    (IF \E e \in Range(remote) : e.id = obj.id THEN {"ok"} ELSE {}) \cup {"status", "exception"}

\* delete_object without its test of the endpoint
NoEndpointUnchecked(obj) == FALSE

\* delete_object gives up before any request: the type has no endpoint
NoEndpoint(obj) == script = "auto_cleanup" /\ obj.type \notin EndpointTypes(script)

\* the position after the last entry of the list
AfterLoop ==
    IF idx < Len(remote_objects) THEN "loop"
    ELSE IF script = "auto_cleanup" THEN "done" ELSE AfterType(type_idx)

\* a failed delete ends the loop: the script stops at the first failure
AfterLoopFailFast(ok) ==
    IF ~ok THEN "done" ELSE AfterLoop

\* a failed delete raises out of main
CrashOnFailure(ok) == IF ok THEN AfterLoop ELSE "crashed"

\* the loop goes on, whatever the delete returned
AfterDelete(ok) == AfterLoop

\* a failed delete is tried again: the loop stays on the entry
RetryFailed(res) == IF res = "ok" THEN idx + 1 ELSE idx

\* the for loop moves to the next entry, whatever the request answered
AfterRequest(res) == idx + 1

\* one iteration of the loop of main over remote_objects
Step ==
    /\ cl_pc = "loop"
    /\ idx <= Len(remote_objects)
    /\ LET obj == remote_objects[idx] IN
       IF script = "cleanup_target" /\ ~HasNameAndId(obj)
       THEN \* if not obj_name or not obj_id: continue
            /\ cl_pc' = AfterLoop
            /\ idx' = idx + 1
            /\ UNCHANGED <<requests, remote, deleted, reports>>
       ELSE IF IsOrphan(obj, expected_objects)
       THEN IF NoEndpoint(obj)
            THEN /\ reports' = reports \o <<Report(obj, "skipped"), Report(obj, "failed")>>
                 /\ cl_pc' = AfterDelete(FALSE)
                 /\ idx' = idx + 1
                 /\ UNCHANGED <<requests, remote, deleted>>
            ELSE \E res \in DeleteOutcomes(obj) :
                 /\ requests' = Append(requests, [id |-> obj.id, type |-> obj.type, res |-> res])
                 /\ remote' = IF res = "ok" THEN Removed(remote, obj.id) ELSE remote
                 /\ deleted' = IF res = "ok" THEN deleted + 1 ELSE deleted
                 /\ reports' = Append(reports, Report(obj, IF res = "ok" THEN "deleted" ELSE "failed"))
                 /\ cl_pc' = AfterDelete(res = "ok")
                 /\ idx' = AfterRequest(res)
       ELSE /\ reports' = Append(reports, Report(obj, "kept"))
            /\ cl_pc' = AfterLoop
            /\ idx' = idx + 1
            /\ UNCHANGED <<requests, remote, deleted>>
    /\ type_idx' = IF script = "cleanup_target" /\ idx = Len(remote_objects)
                       /\ type_idx < Len(OBJECT_TYPES)
                   THEN type_idx + 1 ELSE type_idx
    /\ UNCHANGED <<script, run, manifest, expected_objects, remote_objects, inventory, first_run,
                   fetch_failed, touched, rwVars, mapVars, apVars, coVars>>

\* the orphans of a type the script deletes that the environment holds
DeletableOrphans ==
    {e \in Range(remote) : Identity(e) \notin expected_objects /\ e.type \in EndpointTypes(script)}

\* the script is run again with the same manifest; nobody else touched the
\* environment
Rerun ==
    /\ cl_pc \in {"done", "returned", "exit1", "crashed"}
    /\ run = 1
    /\ run' = 2
    /\ first_run' = [kind |-> "run", orphans_left |-> DeletableOrphans, deleted |-> deleted]
    /\ cl_pc' = "manifest"
    /\ remote_objects' = <<>>
    /\ inventory' = <<>>
    /\ type_idx' = 0
    /\ idx' = 0
    /\ deleted' = 0
    /\ requests' = <<>>
    /\ reports' = <<>>
    /\ fetch_failed' = {}
    /\ touched' = {}
    /\ UNCHANGED <<script, manifest, expected_objects, remote, rwVars, mapVars, apVars, coVars>>

NextCleanup == Manifest \/ ListCli \/ ListApi \/ ListType \/ Step \/ Rerun

SpecCleanup == InitCleanup /\ [][NextCleanup]_vars

(***************************************************************************)
(* SpecRace: the cleanup scripts with another actor on the environment     *)
(***************************************************************************)
MaxOther == 1

\* the object with this id as another actor changed it
Modified(env, id) ==
    [i \in DOMAIN env |-> IF env[i].id = id THEN [env[i] EXCEPT !.name = "m"] ELSE env[i]]

\* between the listing and the delete call for it, another actor deletes or
\* modifies an object that main has listed and not reached yet
OtherActor ==
    /\ cl_pc = "loop"
    /\ Cardinality(touched) < MaxOther
    /\ \E j \in idx..Len(remote_objects), how \in {"deleted", "modified"} :
          LET id == remote_objects[j].id IN
          /\ \E e \in Range(remote) : e.id = id
          /\ \A t \in touched : t.id # id
          /\ remote' = IF how = "deleted" THEN Removed(remote, id) ELSE Modified(remote, id)
          /\ touched' = touched \cup {[id |-> id, how |-> how]}
    /\ UNCHANGED <<script, cl_pc, run, manifest, expected_objects, remote_objects, inventory,
                   type_idx, idx, deleted, requests, reports, first_run, fetch_failed,
                   rwVars, mapVars, apVars, coVars>>

\* one run of a script over a readable manifest that declares MTT a
InitRace ==
    /\ InitCleanup
    /\ manifest = "present"
    /\ <<"MTT", "a">> \in expected_objects
    /\ <<"MTT", "z">> \notin expected_objects

NextRace == Manifest \/ ListCli \/ ListApi \/ ListType \/ Step \/ OtherActor

SpecRace == InitRace /\ [][NextRace]_vars

(***************************************************************************)
(* SpecApply: apply_mappings(config_path, workspace_dir)                   *)
(***************************************************************************)
\* bytes that do not decode as UTF-8
Binary == [kind |-> "binary"]

File(ext, body) == [ext |-> ext, body |-> body]

\* a .zip file: its members, and whether its bytes are those it had at first
Zip(members) == [kind |-> "zip", readable |-> TRUE, members |-> members, stamp |-> "original"]
CorruptZip   == [kind |-> "zip", readable |-> FALSE, members |-> <<>>, stamp |-> "original"]

\* zfile.endswith((".json", ".xml", ".txt"))
TextExtensions == {"json", "xml", "txt"}

CO(s, t) == [sourceConnectionName |-> s, targetConnectionName |-> t]
Config(co, ao) == [state |-> "ok", connectionOverrides |-> co, agentOverrides |-> ao]

\* the config files: missing, not JSON, and JSON with entries that may lack a field
Configs ==
    { [state |-> "missing"], [state |-> "invalid"],
      Config(<<>>, <<>>),
      Config(<<CO(A, C)>>, <<AM(B, C)>>),
      Config(<<[sourceConnectionName |-> A]>>, <<>>),
      Config(<<[targetConnectionName |-> C]>>, <<>>),
      Config(<<CO(A, C)>>, <<[sourceAgentName |-> B]>>),
      Config(<<>>, <<[targetAgentName |-> C]>>) }

ConnMalformed(items) ==
    \E i \in DOMAIN items :
        \/ "sourceConnectionName" \notin DOMAIN items[i]
        \/ "targetConnectionName" \notin DOMAIN items[i]

\* {item['sourceConnectionName']: item['targetConnectionName'] for item in ...}
RECURSIVE ConnMapOf(_, _)
ConnMapOf(d, items) ==
    IF items = <<>> THEN d
    ELSE LET s == Head(items).sourceConnectionName
             t == Head(items).targetConnectionName
         IN  ConnMapOf(IF \E i \in DOMAIN d : d[i].src = s
                       THEN [i \in DOMAIN d |-> IF d[i].src = s THEN ConnPair(s, t) ELSE d[i]]
                       ELSE Append(d, ConnPair(s, t)),
                       Tail(items))

JCompact == JsonText("compact", Obj(<<KV(KEY, Str(C))>>))
JPlain   == JsonText("indent4", Obj(<<KV(KEY, Str(C))>>))
JConn    == JsonText("indent4", Obj(<<KV(KEY, Str(A))>>))
JAgent   == JsonText("indent4", Obj(<<KV(RTE, Str(B))>>))
JUnicode == JsonText("indent4", Obj(<<KV(KEY, Str(<<RawU>>))>>))

Archives ==
    { Zip(<<File("json", JCompact)>>),
      Zip(<<File("json", JPlain), File("bin", Binary)>>),
      Zip(<<File("json", JConn), File("xml", PlainText(C))>>),
      Zip(<<File("txt", PlainText(A)), File("json", Binary)>>),
      Zip(<<File("zip", Zip(<<File("json", JConn)>>))>>),
      Zip(<<File("json", JAgent)>>),
      Zip(<<File("json", JUnicode)>>),
      CorruptZip }

\* the text of a .json file that is no JSON document
JBroken  == PlainText(A)

Files ==
    {File("json", b) : b \in {JCompact, JPlain, JConn, JAgent, JBroken, Binary}}
    \cup {File("zip", z) : z \in Archives}
    \cup {File("other", Binary)}

MaxFiles == 2

Workspaces == UNION {[1..n -> Files] : n \in 0..MaxFiles}

InitApply ==
    /\ ap_pc = "config"
    /\ config \in Configs
    /\ workspace \in Workspaces
    /\ workspace0 = workspace
    /\ file_idx = 0
    /\ modified_count = 0
    /\ written = {}
    /\ updated = {}
    /\ temp_dirs = {}
    /\ temp = <<>>
    /\ z_modified = FALSE
    /\ has_changed = FALSE
    /\ error = "none"
    /\ conn_map = <<>>
    /\ agent_map = <<>>
    /\ RewriteIdle
    /\ CleanupIdle
    /\ CollectIdle

\* a counter that counts every file, changed or not
CountedAlways(changed, n) == n + 1

\* if has_changed: modified_count += 1
Counted(changed, n) == IF changed THEN n + 1 ELSE n

\* the position after the file at i
AfterFile(i) == IF i < Len(workspace) THEN "walk" ELSE "done"

\* lines 47-56: the config is read and the two mappings are built
LoadConfig ==
    /\ ap_pc = "config"
    /\ IF config.state = "missing"
       THEN /\ ap_pc' = "exit1"
            /\ UNCHANGED <<conn_map, agent_map, file_idx, error>>
       ELSE IF config.state = "invalid"
            THEN /\ ap_pc' = "crashed"
                 /\ error' = "JSONDecodeError"
                 /\ UNCHANGED <<conn_map, agent_map, file_idx>>
            ELSE IF ConnMalformed(config.connectionOverrides)
                 THEN /\ ap_pc' = "crashed"
                      /\ error' = "KeyError"
                      /\ UNCHANGED <<conn_map, agent_map, file_idx>>
                 ELSE /\ conn_map' = ConnMapOf(<<>>, config.connectionOverrides)
                      /\ agent_map' = config.agentOverrides
                      /\ file_idx' = 1
                      /\ ap_pc' = AfterFile(0)
                      /\ error' = error
    /\ UNCHANGED <<config, workspace, workspace0, modified_count, written, updated,
                   temp_dirs, temp, z_modified, has_changed, rwVars, clVars, coVars>>

\* CASE 1: a .json file is read, rewritten and written back if it changed
WalkJson ==
    /\ ap_pc = "walk"
    /\ workspace[file_idx].ext = "json"
    /\ LET f == workspace[file_idx]
           r == process_content(f.body, conn_map, agent_map)
       IN  IF f.body.kind = "binary"
           THEN /\ ap_pc' = AfterFile(file_idx)
                /\ file_idx' = file_idx + 1
                /\ UNCHANGED <<workspace, written, updated, modified_count, error>>
           ELSE IF r.raised
                THEN /\ ap_pc' = "crashed"
                     /\ error' = "KeyError"
                     /\ UNCHANGED <<workspace, written, updated, modified_count, file_idx>>
                ELSE /\ ap_pc' = AfterFile(file_idx)
                     /\ file_idx' = file_idx + 1
                     /\ error' = error
                     /\ modified_count' = Counted(r.out # f.body, modified_count)
                     /\ IF r.out # f.body
                        THEN /\ workspace' = [workspace EXCEPT ![file_idx].body = r.out]
                             /\ written' = written \cup {file_idx}
                             /\ updated' = updated \cup {file_idx}
                        ELSE UNCHANGED <<workspace, written, updated>>
    /\ UNCHANGED <<config, workspace0, temp_dirs, temp, z_modified, has_changed,
                   mapVars, rwVars, clVars, coVars>>

\* a file that is neither .json nor .zip
WalkOther ==
    /\ ap_pc = "walk"
    /\ workspace[file_idx].ext \notin {"json", "zip"}
    /\ ap_pc' = AfterFile(file_idx)
    /\ file_idx' = file_idx + 1
    /\ UNCHANGED <<config, workspace, workspace0, modified_count, written, updated,
                   temp_dirs, temp, z_modified, has_changed, error, mapVars, rwVars, clVars, coVars>>

\* CASE 2: temp_dir = tempfile.mkdtemp()
ZipBegin ==
    /\ ap_pc = "walk"
    /\ workspace[file_idx].ext = "zip"
    /\ temp_dirs' = temp_dirs \cup {file_idx}
    /\ temp' = <<>>
    /\ z_modified' = FALSE
    /\ has_changed' = FALSE
    /\ ap_pc' = "zip_extract"
    /\ UNCHANGED <<config, workspace, workspace0, file_idx, modified_count, written,
                   updated, error, mapVars, rwVars, clVars, coVars>>

\* an exception inside the try block leaves it without the finally clause
OnZipErrorNoFinally == "crashed"

\* an exception inside the try block: the finally clause runs next
OnZipError == "zip_cleanup"

\* z_ref.extractall(temp_dir); BadZipFile on an unreadable archive
ZipExtract ==
    /\ ap_pc = "zip_extract"
    /\ IF workspace[file_idx].body.readable
       THEN /\ temp' = workspace[file_idx].body.members
            /\ ap_pc' = "zip_members"
            /\ error' = error
       ELSE /\ temp' = temp
            /\ ap_pc' = OnZipError
            /\ error' = "BadZipFile"
    /\ UNCHANGED <<config, workspace, workspace0, file_idx, modified_count, written,
                   updated, temp_dirs, z_modified, has_changed, mapVars, rwVars, clVars, coVars>>

\* the loop over the extracted files: each text member is rewritten in place
RECURSIVE ProcessMembers(_, _, _)
ProcessMembers(ms, cm, am) ==
    IF ms = <<>> THEN [members |-> <<>>, modified |-> FALSE, raised |-> FALSE]
    ELSE LET m == Head(ms)
             eligible == m.ext \in TextExtensions /\ m.body.kind # "binary"
             r == process_content(m.body, cm, am)
         IN  IF eligible /\ r.raised
             THEN [members |-> ms, modified |-> FALSE, raised |-> TRUE]
             ELSE LET rest == ProcessMembers(Tail(ms), cm, am)
                      changes == eligible /\ r.out # m.body
                  IN  [members |-> <<IF changes THEN [m EXCEPT !.body = r.out] ELSE m>>
                                      \o rest.members,
                       modified |-> changes \/ rest.modified,
                       raised |-> rest.raised]

\* lines 85-100; a read or a write of a member may fail with an OSError
ZipMembers ==
    /\ ap_pc = "zip_members"
    /\ \E io_error \in BOOLEAN :
          LET r == ProcessMembers(temp, conn_map, agent_map) IN
          IF io_error
          THEN /\ error' = "OSError"
               /\ ap_pc' = OnZipError
               /\ UNCHANGED <<temp, z_modified>>
          ELSE IF r.raised
               THEN /\ error' = "KeyError"
                    /\ ap_pc' = OnZipError
                    /\ UNCHANGED <<temp, z_modified>>
               ELSE /\ temp' = r.members
                    /\ z_modified' = r.modified
                    /\ ap_pc' = IF r.modified THEN "zip_repack" ELSE "zip_cleanup"
                    /\ error' = error
    /\ UNCHANGED <<config, workspace, workspace0, file_idx, modified_count, written,
                   updated, temp_dirs, has_changed, mapVars, rwVars, clVars, coVars>>

\* lines 102-108: the archive is opened for writing and every file of the
\* scratch directory is written into it; a failure leaves a truncated archive
ZipRepack ==
    /\ ap_pc = "zip_repack"
    /\ written' = written \cup {file_idx}
    /\ \E ok \in BOOLEAN :
          IF ok
          THEN /\ workspace' = [workspace EXCEPT ![file_idx].body =
                        [kind |-> "zip", readable |-> TRUE, members |-> temp, stamp |-> "repacked"]]
               /\ has_changed' = TRUE
               /\ ap_pc' = "zip_cleanup"
               /\ error' = error
          ELSE /\ workspace' = [workspace EXCEPT ![file_idx].body =
                        [kind |-> "zip", readable |-> FALSE, members |-> <<>>, stamp |-> "truncated"]]
               /\ has_changed' = has_changed
               /\ ap_pc' = OnZipError
               /\ error' = "OSError"
    /\ UNCHANGED <<config, workspace0, file_idx, modified_count, updated, temp_dirs, temp,
                   z_modified, mapVars, rwVars, clVars, coVars>>

\* finally: shutil.rmtree(temp_dir); then the exception goes on, or the file
\* is counted
ZipCleanup ==
    /\ ap_pc = "zip_cleanup"
    /\ temp_dirs' = temp_dirs \ {file_idx}
    /\ temp' = <<>>
    /\ IF error # "none"
       THEN /\ ap_pc' = "crashed"
            /\ UNCHANGED <<file_idx, modified_count, updated>>
       ELSE /\ ap_pc' = AfterFile(file_idx)
            /\ file_idx' = file_idx + 1
            /\ modified_count' = Counted(has_changed, modified_count)
            /\ updated' = IF has_changed THEN updated \cup {file_idx} ELSE updated
    /\ UNCHANGED <<config, workspace, workspace0, written, z_modified, has_changed, error,
                   mapVars, rwVars, clVars, coVars>>

NextApply ==
    LoadConfig \/ WalkJson \/ WalkOther \/ ZipBegin \/ ZipExtract \/ ZipMembers
        \/ ZipRepack \/ ZipCleanup

SpecApply == InitApply /\ [][NextApply]_vars

(***************************************************************************)
(* SpecRewrite: process_content applied to its own result                  *)
(***************************************************************************)
InitRewrite ==
    /\ rw_pc = "start"
    /\ content \in Contents
    /\ conn_map \in ConnMaps
    /\ agent_map \in AgentMaps
    /\ out1 = None
    /\ out2 = None
    /\ CleanupIdle
    /\ ApplyIdle
    /\ CollectIdle

RewriteOnce ==
    /\ rw_pc = "start"
    /\ out1' = process_content(content, conn_map, agent_map).out
    /\ rw_pc' = "once"
    /\ UNCHANGED <<content, conn_map, agent_map, out2, clVars, apVars, coVars>>

RewriteTwice ==
    /\ rw_pc = "once"
    /\ out2' = process_content(out1, conn_map, agent_map).out
    /\ rw_pc' = "twice"
    /\ UNCHANGED <<content, conn_map, agent_map, out1, clVars, apVars, coVars>>

NextRewrite == RewriteOnce \/ RewriteTwice

SpecRewrite == InitRewrite /\ [][NextRewrite]_vars

(***************************************************************************)
(* SpecCollect: collect_objects(workspace_root) of build_package.py        *)
(*                                                                         *)
(* A file name is a sequence of tokens: the dot, and words without a dot.  *)
(***************************************************************************)
DOT == "."

\* EXTENSION_TO_TYPE, in the order of the dict
EXTENSION_TO_TYPE ==
    << [ext |-> <<DOT, "Project", DOT, "json">>, typ |-> "Project"],
       [ext |-> <<DOT, "Folder", DOT, "json">>, typ |-> "Folder"],
       [ext |-> <<DOT, "MTT", DOT, "zip">>, typ |-> "MTT"],
       [ext |-> <<DOT, "DTEMPLATE", DOT, "zip">>, typ |-> "DTEMPLATE"] >>

\* file.endswith(ext)
EndsWith(file, ext) ==
    Len(file) >= Len(ext) /\ SubSeq(file, Len(file) - Len(ext) + 1, Len(file)) = ext

\* the positions of the dots of a name
Dots(base) == {i \in DOMAIN base : base[i] = DOT}

\* '.'.join(base.split('.')[:-1]): what stands before the last dot
BeforeLastDot(base) ==
    LET last == CHOOSE i \in Dots(base) : \A j \in Dots(base) : j <= i
    IN  SubSeq(base, 1, last - 1)

\* the name with the suffix cut off at its end alone
StripSuffix(file, ext) == SubSeq(file, 1, Len(file) - Len(ext))

\* name = file.replace(ext, ''): every occurrence of ext is removed
NameOfJson(file, ext) == Replace(file, ext, <<>>)

\* base = file[:-4]; the part of base before its last dot, or base when it
\* has no dot
NameOfZip(file) ==
    LET base == SubSeq(file, 1, Len(file) - Len(<<DOT, "zip">>))
    IN  IF Dots(base) # {} THEN BeforeLastDot(base) ELSE base

\* the loop over EXTENSION_TO_TYPE.items(), from entry k on: the first entry
\* whose ext ends the file name gives obj_type and name
RECURSIVE Classify(_, _)
Classify(file, k) ==
    IF k > Len(EXTENSION_TO_TYPE) THEN [obj_type |-> "none", name |-> <<>>]
    ELSE LET e == EXTENSION_TO_TYPE[k] IN
         IF EndsWith(file, e.ext)
         THEN [obj_type |-> e.typ,
               name |-> IF EndsWith(e.ext, <<DOT, "zip">>) THEN NameOfZip(file)
                        ELSE NameOfJson(file, e.ext)]
         ELSE Classify(file, k + 1)

\* the names an asset may have: plain, with dots, and with the text of a
\* registered suffix inside
Stems ==
    { <<"x">>, <<"x", DOT, "y">>,
      <<"x", DOT, "Folder", DOT, "json">>, <<"x", DOT, "MTT", DOT, "zip">> }

FileNames ==
    {n \o EXTENSION_TO_TYPE[k].ext : n \in Stems, k \in DOMAIN EXTENSION_TO_TYPE}
    \cup { <<"x", DOT, "json">>, <<"x", DOT, "TASKFLOW", DOT, "xml">>, <<"readme">> }

MaxExplore == 2

\* the Explore folder is missing
NoExplore == [kind |-> "missing"]

\* the Explore folder holds the files f
Folder(f) == [kind |-> "dir", files |-> f]

InitCollect ==
    /\ co_pc = "start"
    /\ explore \in {NoExplore} \cup
                   {Folder(f) : f \in UNION {[1..n -> FileNames] : n \in 0..MaxExplore}}
    /\ co_idx = 0
    /\ co_objects = <<>>
    /\ skipped = {}
    /\ RewriteIdle
    /\ CleanupIdle
    /\ ApplyIdle
    /\ conn_map = <<>>
    /\ agent_map = <<>>

\* the position after the file at i
AfterExplored(i) == IF i < Len(explore.files) THEN "walk" ELSE "done"

\* exit with status 1 when there is no Explore folder, else start the walk
CollectBegin ==
    /\ co_pc = "start"
    /\ IF explore = NoExplore
       THEN /\ co_pc' = "exit1"
            /\ co_idx' = co_idx
       ELSE /\ co_pc' = AfterExplored(0)
            /\ co_idx' = 1
    /\ UNCHANGED <<explore, co_objects, skipped, rwVars, mapVars, clVars, apVars>>

\* one file of the walk is appended to objects or reported as unrecognized
CollectFile ==
    /\ co_pc = "walk"
    /\ LET file == explore.files[co_idx]
           c == Classify(file, 1)
       IN  IF c.obj_type # "none" /\ c.name # <<>>
           THEN /\ co_objects' = Append(co_objects, [objectName |-> c.name, objectType |-> c.obj_type,
                                               path |-> co_idx])
                /\ skipped' = skipped
           ELSE /\ skipped' = skipped \cup {co_idx}
                /\ co_objects' = co_objects
    /\ co_pc' = AfterExplored(co_idx)
    /\ co_idx' = co_idx + 1
    /\ UNCHANGED <<explore, rwVars, mapVars, clVars, apVars>>

NextCollect == CollectBegin \/ CollectFile

SpecCollect == InitCollect /\ [][NextCollect]_vars

(***************************************************************************)
(* C2  Idempotence of rewrite                                              *)
(***************************************************************************)
\* a source name s and a target name t overlap: one occurs in the other, or an
\* end of one is the other end of the other
Overlaps(s, t) ==
    \/ Occurs(s, t)
    \/ Occurs(t, s)
    \/ \E n \in 1..Len(s) : n <= Len(t) /\ SubSeq(s, 1, n) = SubSeq(t, Len(t) - n + 1, Len(t))
    \/ \E n \in 1..Len(s) : n <= Len(t) /\ SubSeq(t, 1, n) = SubSeq(s, Len(s) - n + 1, Len(s))

SourcesOf(cm, am) ==
    {cm[i].src : i \in DOMAIN cm} \cup {am[i].sourceAgentName : i \in DOMAIN am}
TargetsOf(cm, am) ==
    {cm[i].tgt : i \in DOMAIN cm} \cup {am[i].targetAgentName : i \in DOMAIN am}

NoOverlap(cm, am) ==
    \A s \in SourcesOf(cm, am), t \in TargetsOf(cm, am) : ~Overlaps(s, t)

RECURSIVE ReplaceConnectionsStr(_, _)
ReplaceConnectionsStr(s, cm) ==
    IF cm = <<>> THEN s
    ELSE ReplaceConnectionsStr(Replace(s, Head(cm).src, Head(cm).tgt), Tail(cm))

\* dout is din with nothing changed but the string values of the recognized
\* agent keys and the occurrences of mapped connection names: the same
\* members in the same order and nesting
RECURSIVE Preserved(_, _, _)
Preserved(din, dout, cm) ==
    CASE din.t = "str" ->
            /\ dout.t = "str"
            /\ Unescape(dout.s) = Unescape(ReplaceConnectionsStr(din.s, cm))
      [] din.t = "obj" ->
            /\ dout.t = "obj"
            /\ Len(dout.kv) = Len(din.kv)
            /\ \A i \in DOMAIN din.kv :
                  /\ Unescape(dout.kv[i].k) = Unescape(ReplaceConnectionsStr(din.kv[i].k, cm))
                  /\ IF dout.kv[i].k \in AGENT_KEYS /\ din.kv[i].v.t = "str"
                     THEN dout.kv[i].v.t = "str"
                     ELSE Preserved(din.kv[i].v, dout.kv[i].v, cm)
      [] din.t = "arr" ->
            /\ dout.t = "arr"
            /\ Len(dout.items) = Len(din.items)
            /\ \A i \in DOMAIN din.items : Preserved(din.items[i], dout.items[i], cm)
      [] OTHER -> dout = din

\* C8: for every parseable JSON document the rewritten document has the same
\* keys, values, key order and nesting as the input, apart from the string
\* values of the recognized agent keys and the occurrences of mapped
\* connection names.
C8_StructurePreserved ==
    (rw_pc # "start" /\ content.kind = "json")
        => (out1.kind = "json" /\ Preserved(content.doc, out1.doc, conn_map))

\* the same, for the documents no two members of which end with the same key
RECURSIVE KeysStayDistinct(_, _)
KeysStayDistinct(d, cm) ==
    CASE d.t = "obj" ->
            /\ \A i, j \in DOMAIN d.kv :
                  i # j => Unescape(ReplaceConnectionsStr(d.kv[i].k, cm))
                           # Unescape(ReplaceConnectionsStr(d.kv[j].k, cm))
            /\ \A i \in DOMAIN d.kv : KeysStayDistinct(d.kv[i].v, cm)
      [] d.t = "arr" -> \A i \in DOMAIN d.items : KeysStayDistinct(d.items[i], cm)
      [] OTHER -> TRUE

StructurePreservedDistinctKeys ==
    (rw_pc # "start" /\ content.kind = "json" /\ KeysStayDistinct(content.doc, conn_map))
        => (out1.kind = "json" /\ Preserved(content.doc, out1.doc, conn_map))

(***************************************************************************)
(* Claims on the reconciliation pass                                       *)
(***************************************************************************)
RequestedIds == {requests[i].id : i \in DOMAIN requests}
SucceededIds == {requests[i].id : i \in {j \in DOMAIN requests : requests[j].res = "ok"}}
ReportsOf(id) == {reports[i].outcome : i \in {j \in DOMAIN reports : reports[j].id = id}}

\* the container types of the exclusion policy
ContainerTypes == {"Folder", "Project"}

\* an entry the pass must leave alone although it is an orphan: a container,
\* or an object of a type the type-to-endpoint table lacks
Excluded(e) == e.type \in ContainerTypes \/ e.type \notin EndpointTypes(script)

\* C1: when the pass is over, the entries a delete was issued for are the
\* listed entries that are not in the local set minus the excluded ones, and
\* an entry of the local set is reported as kept and no delete is issued for it.
C1_OrphanCorrectness ==
    cl_pc = "done" =>
        /\ RequestedIds = {e.id : e \in {x \in Range(inventory) :
                                Identity(x) \notin expected_objects /\ ~Excluded(x)}}
        /\ \A e \in Range(inventory) :
              Identity(e) \in expected_objects
                  => (ReportsOf(e.id) = {"kept"} /\ e.id \notin RequestedIds)

\* the same with the table as the whole exclusion policy, when every listed
\* entry carries a name and an id: what the code computes
OrphansOfTableTypesRequested ==
    (cl_pc = "done" /\ \A e \in Range(inventory) : HasNameAndId(e)) =>
        /\ RequestedIds = {e.id : e \in {x \in Range(inventory) :
                                Identity(x) \notin expected_objects
                                /\ x.type \in EndpointTypes(script)}}
        /\ \A e \in Range(inventory) :
              Identity(e) \in expected_objects
                  => (ReportsOf(e.id) = {"kept"} /\ e.id \notin RequestedIds)

\* C3: a failed delete does not end the pass of auto_cleanup: every entry
\* before the position of the loop has its report and, if it is an orphan of a
\* type with an endpoint, its delete request; the loop is never stuck before
\* the end of the list, and the summary comes only after the last entry.
C3_FailOpenBatch ==
    (script = "auto_cleanup" /\ cl_pc \in {"loop", "done"}) =>
        /\ \A j \in 1..(idx - 1) :
              LET e == remote_objects[j] IN
              /\ ReportsOf(e.id) # {}
              /\ (Identity(e) \notin expected_objects /\ e.type \in EndpointTypes(script))
                    => e.id \in RequestedIds
        /\ cl_pc = "loop" => idx <= Len(remote_objects)
        /\ cl_pc = "done" => idx = Len(remote_objects) + 1

\* a pass that went on after a delete raised, and after one was refused
C3_Witness ==
    /\ script = "auto_cleanup"
    /\ cl_pc = "done"
    /\ Len(requests) = 3
    /\ requests[1].res = "exception"
    /\ requests[2].res = "status"
    /\ requests[3].res = "ok"
    /\ deleted = 1

\* C4 (as claimed): the re-run performs no successful deletion, whatever the
\* delete calls of the first run returned.
C4_RerunDeletesNothing ==
    run = 2 => (deleted = 0 /\ SucceededIds = {})

\* C4 (amended): once the first run has left no orphan of a deletable type in
\* the environment, the re-run performs no successful deletion.
C4_RerunDeletesNothingOnceOrphansGone ==
    (run = 2 /\ first_run.orphans_left = {}) => (deleted = 0 /\ SucceededIds = {})

\* a re-run that listed the environment again after a first run that deleted
\* every orphan
C4_Witness ==
    /\ run = 2
    /\ cl_pc = "done"
    /\ first_run.orphans_left = {}
    /\ first_run.deleted = 2
    /\ Len(inventory) > 0
    /\ deleted = 0

\* C6: no delete is ever issued for an entry of type Folder or Project.
C6_ContainersNeverDeleted ==
    \A i \in DOMAIN requests : requests[i].type \notin ContainerTypes

\* C9: no delete request is issued for an entry whose type is no key of the
\* table; such an orphan is reported as skipped, never as deleted, and the
\* counter counts the successful requests alone.
C9_OnlyTableTypesDeleted ==
    /\ \A i \in DOMAIN requests : requests[i].type \in EndpointTypes(script)
    /\ cl_pc \in {"loop", "done"} =>
          \A j \in 1..(idx - 1) :
              LET e == remote_objects[j] IN
              (e.type \notin EndpointTypes(script) /\ Identity(e) \notin expected_objects)
                  => ("skipped" \in ReportsOf(e.id) /\ "deleted" \notin ReportsOf(e.id))
    /\ deleted = Cardinality(SucceededIds)

\* a finished pass that met an orphan of a type outside the table and deleted
\* another orphan
C9_Witness ==
    /\ cl_pc = "done"
    /\ \E e \in Range(remote_objects) :
          e.type \notin EndpointTypes(script) /\ "skipped" \in ReportsOf(e.id)
    /\ deleted = 1

(***************************************************************************)
(* Claims on apply_mappings                                                *)
(***************************************************************************)
\* the source names of the two mappings in use
MappedNames ==
    {conn_map[i].src : i \in DOMAIN conn_map}
    \cup {agent_map[i].sourceAgentName : i \in {j \in DOMAIN agent_map : HasSource(agent_map[j])}}

\* some member of the archive, at any depth, contains a mapped name
RECURSIVE MentionsMapped(_)
MentionsMapped(z) ==
    \E i \in DOMAIN z.members :
        LET b == z.members[i].body IN
        CASE b.kind = "zip" -> MentionsMapped(b)
          [] b.kind = "binary" -> FALSE
          [] OTHER -> \E n \in MappedNames : OccursIn(n, b)

\* C5: a .zip file none of whose members contains a mapped connection name or
\* a mapped agent name is never opened for writing: it keeps its bytes and is
\* not counted as modified, whatever the layout of its JSON members.
C5_NoOpStability ==
    ap_pc \notin {"idle", "config"} =>
        \A i \in DOMAIN workspace0 :
            (workspace0[i].ext = "zip" /\ ~MentionsMapped(workspace0[i].body))
                => (i \notin written /\ i \notin updated /\ workspace[i] = workspace0[i])

\* the config file is missing, is not JSON, or has an entry that lacks a
\* required field
ConfigError(cfg) ==
    \/ cfg.state \in {"missing", "invalid"}
    \/ ConnMalformed(cfg.connectionOverrides)
    \/ Malformed(cfg.agentOverrides)

\* C7: with a configuration error no workspace file or archive is ever written.
C7_ConfigErrorWritesNothing ==
    (ap_pc # "idle" /\ ConfigError(config)) => (written = {} /\ workspace = workspace0)

\* the same for the errors apply_mappings meets while it builds the mappings
ConnConfigErrorWritesNothing ==
    (ap_pc # "idle"
        /\ (config.state \in {"missing", "invalid"} \/ ConnMalformed(config.connectionOverrides)))
        => (written = {} /\ workspace = workspace0 /\ ap_pc \in {"config", "exit1", "crashed"})

InArchive == {"zip_extract", "zip_members", "zip_repack", "zip_cleanup"}

\* C10: the scratch directory of an archive exists from mkdtemp to the finally
\* clause, so also while the archive is re-packed, and no scratch directory
\* exists once the processing of the archive has ended, on whatever path.
C10_ScratchReleased ==
    /\ ap_pc \in InArchive => temp_dirs = {file_idx}
    /\ ap_pc \notin InArchive => temp_dirs = {}

\* a run that re-packed its first archive and ended on the second, unreadable
\* one, with no scratch directory left
C10_Witness ==
    /\ ap_pc = "crashed"
    /\ error = "BadZipFile"
    /\ file_idx = 2
    /\ updated = {1}
    /\ workspace[1].ext = "zip"
    /\ workspace[1].body.stamp = "repacked"
    /\ temp_dirs = {}

(***************************************************************************)
(* C11  Archive errors are local                                           *)
(***************************************************************************)
\* C11: an archive that cannot be read does not end the run: the walk never
\* stops at it with an exception, so the files after it are processed and the
\* run finishes with its count.
C11_ArchiveErrorsLocal ==
    \A i \in DOMAIN workspace0 :
        (workspace0[i].ext = "zip" /\ ~workspace0[i].body.readable)
            => ~(ap_pc = "crashed" /\ file_idx = i)

(***************************************************************************)
(* C12  Nested archives                                                    *)
(***************************************************************************)
\* the members of an archive with every eligible text member rewritten, those
\* of the archives among its members included
RECURSIVE RewrittenMembers(_)
RewrittenMembers(ms) ==
    [j \in DOMAIN ms |->
        LET m == ms[j] IN
        IF m.body.kind = "zip"
        THEN [m EXCEPT !.body.members = RewrittenMembers(m.body.members)]
        ELSE IF m.ext \in TextExtensions /\ m.body.kind # "binary"
             THEN [m EXCEPT !.body = process_content(m.body, conn_map, agent_map).out]
             ELSE m]

\* C12: when the run is over, the eligible text members of every readable
\* workspace archive are rewritten with the mapping, those of an archive that
\* is a member of the archive included.
C12_NestedArchivesRewritten ==
    ap_pc = "done" =>
        \A i \in DOMAIN workspace0 :
            (workspace0[i].ext = "zip" /\ workspace0[i].body.readable)
                => workspace[i].body.members = RewrittenMembers(workspace0[i].body.members)

\* the same for the archives none of whose members is an archive
FlatArchivesRewritten ==
    ap_pc = "done" =>
        \A i \in DOMAIN workspace0 :
            (/\ workspace0[i].ext = "zip"
             /\ workspace0[i].body.readable
             /\ \A j \in DOMAIN workspace0[i].body.members :
                    workspace0[i].body.members[j].body.kind # "zip")
                => workspace[i].body.members = RewrittenMembers(workspace0[i].body.members)

(***************************************************************************)
(* C13  cleanup_target without a manifest                                  *)
(***************************************************************************)
\* C13: in cleanup_target.py, when the package has no exportMetadata.v2.json or
\* the manifest cannot be read, no delete request is issued for any remote
\* object of any type.
C13_NoManifestNoDelete ==
    (script = "cleanup_target" /\ manifest # "present") => requests = <<>>

(***************************************************************************)
(* C14  Deletion is the only remote side effect                            *)
(***************************************************************************)
\* C14: no step of a pass adds an object to the remote inventory or changes the
\* type, the name or the id of one (the inventory only shrinks), and no step
\* changes the local declaration set.
C14_DeletionOnlySideEffect ==
    [][/\ Range(remote') \subseteq Range(remote)
       /\ expected_objects' = expected_objects]_vars

\* a finished first pass that deleted two objects, failed on a third and left
\* it in the environment
C14_Witness ==
    /\ cl_pc = "done"
    /\ run = 1
    /\ deleted = 2
    /\ Len(requests) = 3
    /\ Len(remote) = 1
    /\ requests[2].res # "ok"
    /\ requests[2].id = remote[1].id

OutcomeCount(id) == Cardinality({j \in DOMAIN reports : reports[j].id = id})

\* C20: when a pass is over, every entry the remote inventory returned has
\* exactly one reported outcome, the entries lacking a name or an id included.
C20_OneOutcomePerEntry ==
    cl_pc \in {"done", "returned"} =>
        \A e \in Range(inventory) : OutcomeCount(e.id) = 1

\* the same for the entries that carry a name and an id and whose type has an
\* endpoint
OneOutcomePerNamedEntryOfTable ==
    cl_pc = "done" =>
        \A e \in Range(remote_objects) :
            (HasNameAndId(e) /\ e.type \in EndpointTypes(script)) => OutcomeCount(e.id) = 1

(***************************************************************************)
(* C15  Substring-safe connection substitution                             *)
(***************************************************************************)
\* the pair p put into a list that is in descending order of source length
RECURSIVE InsertByLength(_, _)
InsertByLength(p, cm) ==
    IF cm = <<>> THEN <<p>>
    ELSE IF Len(p.src) >= Len(Head(cm).src) THEN <<p>> \o cm
         ELSE <<Head(cm)>> \o InsertByLength(p, Tail(cm))

\* the pairs in descending order of source length
RECURSIVE DescendingLength(_)
DescendingLength(cm) ==
    IF cm = <<>> THEN <<>> ELSE InsertByLength(Head(cm), DescendingLength(Tail(cm)))

\* one source name occurs in another source name
SubstringSources(cm) ==
    \E i, j \in DOMAIN cm : i # j /\ Occurs(cm[i].src, cm[j].src)

\* C15: for a connection map in which one source name occurs in another (and
\* no source name overlaps a target name, so that no pair acts on the result of
\* another), the result is the one obtained with the source names applied in
\* descending length, whatever the order of the pairs in the config.
C15_SubstringSafe ==
    (rw_pc # "start" /\ SubstringSources(conn_map) /\ NoOverlap(conn_map, <<>>))
        => out1 = process_content(content, DescendingLength(conn_map), agent_map).out

(***************************************************************************)
(* C16  Agent substitution at any depth                                    *)
(***************************************************************************)
\* the document with the string value of every recognized key replaced by the
\* target of its first matching pair, at any depth, the values of recognized
\* keys included
RECURSIVE ReplaceAgentsAnyDepth(_, _)
ReplaceAgentsAnyDepth(obj, am) ==
    CASE obj.t = "obj" ->
            Obj([i \in DOMAIN obj.kv |->
                  LET k == obj.kv[i].k
                      v == obj.kv[i].v
                  IN  IF k \in AGENT_KEYS /\ v.t = "str"
                      THEN IF AgentLookup(v.s, am).r = "hit"
                           THEN KV(k, Str(AgentLookup(v.s, am).tgt))
                           ELSE obj.kv[i]
                      ELSE KV(k, ReplaceAgentsAnyDepth(v, am))])
      [] obj.t = "arr" ->
            Arr([i \in DOMAIN obj.items |-> ReplaceAgentsAnyDepth(obj.items[i], am)])
      [] OTHER -> obj

\* C16: for every parseable document, the result is the document in which the
\* string value of every recognized key, at any depth, also inside the object
\* or array value of another recognized key, is replaced by the target of the
\* first matching pair, and a string matching no pair is unchanged.
C16_AgentsAtAnyDepth ==
    (rw_pc # "start" /\ content.kind = "json")
        => out1 = Dumps(ReplaceAgentsAnyDepth(
                            Loads(ReplaceConnections(content, conn_map)).data, agent_map))

\* no recognized key of the document has an object or an array as its value
RECURSIVE AgentKeysHoldScalars(_)
AgentKeysHoldScalars(d) ==
    CASE d.t = "obj" ->
            \A i \in DOMAIN d.kv :
                IF d.kv[i].k \in AGENT_KEYS
                THEN d.kv[i].v.t \notin {"obj", "arr"}
                ELSE AgentKeysHoldScalars(d.kv[i].v)
      [] d.t = "arr" -> \A i \in DOMAIN d.items : AgentKeysHoldScalars(d.items[i])
      [] OTHER -> TRUE

\* the same for the documents whose recognized keys hold no object or array
AgentsReplacedUnderOtherKeys ==
    (/\ rw_pc # "start"
     /\ content.kind = "json"
     /\ AgentKeysHoldScalars(Loads(ReplaceConnections(content, conn_map)).data))
        => out1 = Dumps(ReplaceAgentsAnyDepth(
                            Loads(ReplaceConnections(content, conn_map)).data, agent_map))

(***************************************************************************)
(* C17  Write-back and count                                               *)
(***************************************************************************)
\* the rewritten content of a text differs from the text
Differs(body) ==
    body.kind # "binary" /\ process_content(body, conn_map, agent_map).out # body

\* some eligible member of the archive differs once rewritten
SomeMemberDiffers(z) ==
    \E j \in DOMAIN z.members :
        z.members[j].ext \in TextExtensions /\ Differs(z.members[j].body)

\* C17: of the files the walk has passed, a .json file was written if and only
\* if its rewritten content differs from the content read, a .zip if and only
\* if an eligible member's rewritten content differs from the member, no other
\* file was written and a file that was not written has the content it had;
\* the counter is the number of those files that were written, so the final
\* count is the number of files written during the run.
C17_WriteBackAndCount ==
    /\ \A i \in DOMAIN workspace0 :
          i < file_idx =>
              LET f == workspace0[i] IN
              /\ f.ext = "json" => (i \in written <=> Differs(f.body))
              /\ f.ext = "zip" => (i \in written <=> SomeMemberDiffers(f.body))
              /\ f.ext \notin {"json", "zip"} => i \notin written
              /\ i \notin written => workspace[i] = f
    /\ modified_count = Cardinality({i \in written : i < file_idx})
    /\ ap_pc = "done" => modified_count = Cardinality(written)

\* a finished run over a .json file that was written back and an archive that
\* was left alone: one file counted
C17_Witness ==
    /\ ap_pc = "done"
    /\ Len(workspace0) = 2
    /\ workspace0[1].ext = "json"
    /\ workspace0[2].ext = "zip"
    /\ workspace0[2].body.readable
    /\ written = {1}
    /\ workspace[1] # workspace0[1]
    /\ workspace[2] = workspace0[2]
    /\ modified_count = 1

(***************************************************************************)
(* C18  Parse-failure fallback                                             *)
(***************************************************************************)
\* a string after the literal substitution of every agent pair, in list order
RECURSIVE LiteralAgents(_, _)
LiteralAgents(s, am) ==
    IF am = <<>> THEN s
    ELSE LiteralAgents(Replace(s, Head(am).sourceAgentName, Head(am).targetAgentName), Tail(am))

\* C18: a .json file whose text is no JSON document never makes
\* process_content raise, so the run never ends on it with a KeyError, and
\* once the walk has passed it the file holds its text with the connection
\* source names and the agent source names replaced literally.
C18_FallbackNeverRaises ==
    \A i \in DOMAIN workspace0 :
        (workspace0[i].ext = "json" /\ workspace0[i].body.kind = "text") =>
            /\ ~(ap_pc = "crashed" /\ error = "KeyError" /\ file_idx = i)
            /\ i < file_idx =>
                  workspace[i].body =
                      PlainText(LiteralAgents(
                          ReplaceConnectionsStr(workspace0[i].body.s, conn_map), agent_map))

\* the same under an agent list whose entries all carry both fields
FallbackWithCompleteAgentEntries ==
    (ap_pc # "config" /\ ~Malformed(agent_map)) =>
        \A i \in DOMAIN workspace0 :
            (workspace0[i].ext = "json" /\ workspace0[i].body.kind = "text") =>
                /\ ~(ap_pc = "crashed" /\ error = "KeyError" /\ file_idx = i)
                /\ i < file_idx =>
                      workspace[i].body =
                          PlainText(LiteralAgents(
                              ReplaceConnectionsStr(workspace0[i].body.s, conn_map), agent_map))

(***************************************************************************)
(* C21  Inventory fetch failure is per type                                *)
(***************************************************************************)
\* C21: when the listing of one type fails (exception, status other than 200,
\* or a body that cannot be parsed), the run does not end with an exception,
\* that type contributes no entry and no delete request, and when the pass is
\* over every object of a type whose listing did not fail has been listed.
C21_FetchFailurePerType ==
    /\ fetch_failed # {} => cl_pc # "crashed"
    /\ \A t \in fetch_failed :
          /\ \A e \in Range(inventory) : e.type # t
          /\ \A i \in DOMAIN requests : requests[i].type # t
    /\ cl_pc = "done" =>
          \A e \in Range(remote) :
              (e.type \in EndpointTypes(script) /\ e.type \notin fetch_failed)
                  => e \in Range(inventory)

\* the same for the API fallback of auto_cleanup.py alone
ApiFallbackFailureIsPerType ==
    script = "auto_cleanup" => C21_FetchFailurePerType

(***************************************************************************)
(* C22  Stale snapshot race                                                *)
(***************************************************************************)
\* the requests issued for the object with this id
RequestsFor(id) == {i \in DOMAIN requests : requests[i].id = id}

\* C22 (as claimed): the delete call for an entry that another actor deleted
\* or modified after the listing yields a failed outcome.
C22_StaleEntryFails ==
    \A t \in touched :
        RequestsFor(t.id) # {} =>
            (ReportsOf(t.id) = {"failed"} /\ \A i \in RequestsFor(t.id) : requests[i].res # "ok")

\* every request is reported by what it returned: deleted for a success,
\* failed for anything else
ReportedAsAnswered ==
    \A i \in DOMAIN requests :
        ReportsOf(requests[i].id) = {IF requests[i].res = "ok" THEN "deleted" ELSE "failed"}

\* C22 (amended): the delete call for an entry that another actor deleted after
\* the listing yields a failed outcome; the one for an entry another actor
\* modified is reported as the server answers it, like every other request;
\* the loop is never stuck before the end of the list, and no step of the loop
\* ends the run with an exception.
C22_StaleEntryIsOrdinaryOutcome ==
    /\ [](/\ \A t \in touched :
                (t.how = "deleted" /\ RequestsFor(t.id) # {}) => ReportsOf(t.id) = {"failed"}
          /\ ReportedAsAnswered
          /\ cl_pc = "loop" => idx <= Len(remote_objects))
    /\ [][cl_pc = "loop" => cl_pc' \in {"loop", "done", "list_type"}]_vars

\* a finished pass whose first delete met an object another actor had deleted
\* after the listing, and whose second delete succeeded
C22_Witness ==
    /\ cl_pc = "done"
    /\ Len(requests) = 2
    /\ [id |-> requests[1].id, how |-> "deleted"] \in touched
    /\ requests[1].res = "status"
    /\ ReportsOf(requests[1].id) = {"failed"}
    /\ requests[2].res = "ok"
    /\ deleted = 1

(***************************************************************************)
(* C23  No deletion without a local declaration set                        *)
(***************************************************************************)
\* C23: in auto_cleanup.py, when the expected set is empty (no manifest, or a
\* manifest that lists no object with a type and a name), main ends with
\* status 1 at the manifest: it lists nothing and issues no delete request.
C23_EmptyExpectedExits ==
    (script = "auto_cleanup" /\ manifest # "unreadable" /\ expected_objects = {}) =>
        /\ cl_pc \in {"manifest", "exit1"}
        /\ remote_objects = <<>>
        /\ inventory = <<>>
        /\ requests = <<>>
        /\ deleted = 0

\* auto_cleanup run for the second time without a manifest, against an
\* environment that holds objects it could delete: it has exited with status 1
C23_Witness ==
    /\ script = "auto_cleanup"
    /\ manifest = "missing"
    /\ run = 2
    /\ cl_pc = "exit1"
    /\ Len(remote) = 3
    /\ DeletableOrphans # {}

(***************************************************************************)
(* C24  Filename identity                                                  *)
(***************************************************************************)
\* the registered suffixes that end the file name
Matching(file) == {k \in DOMAIN EXTENSION_TO_TYPE : EndsWith(file, EXTENSION_TO_TYPE[k].ext)}

\* the identity of a file whose name ends with a registered suffix: the type
\* of the longest such suffix, and the name without that suffix
IdentityOfFile(file) ==
    LET k == CHOOSE m \in Matching(file) :
                 \A o \in Matching(file) :
                     Len(EXTENSION_TO_TYPE[o].ext) <= Len(EXTENSION_TO_TYPE[m].ext)
    IN  [objectName |-> StripSuffix(file, EXTENSION_TO_TYPE[k].ext),
         objectType |-> EXTENSION_TO_TYPE[k].typ]

\* the objects collected for the file at position i
ObjectsOf(i) ==
    {[objectName |-> co_objects[j].objectName, objectType |-> co_objects[j].objectType] :
        j \in {m \in DOMAIN co_objects : co_objects[m].path = i}}

\* C24: when the walk is over, a file whose name is n followed by a registered
\* suffix has yielded the identity (type of that suffix, n) with n unaltered,
\* also when n contains dots or the text of the suffix, and a file that ends
\* with no registered suffix has yielded no identity.
C24_FilenameIdentity ==
    co_pc = "done" =>
        \A i \in DOMAIN explore.files :
            IF Matching(explore.files[i]) = {}
            THEN ObjectsOf(i) = {} /\ i \in skipped
            ELSE ObjectsOf(i) = {IdentityOfFile(explore.files[i])}

\* the same for the names that hold the text of their suffix at their end alone
IdentityWhenSuffixOccursOnce ==
    co_pc = "done" =>
        \A i \in DOMAIN explore.files :
            IF Matching(explore.files[i]) = {}
            THEN ObjectsOf(i) = {} /\ i \in skipped
            ELSE LET k == CHOOSE m \in Matching(explore.files[i]) : TRUE
                     ext == EXTENSION_TO_TYPE[k].ext
                 IN  ~Occurs(ext, StripSuffix(explore.files[i], ext))
                         => ObjectsOf(i) = {IdentityOfFile(explore.files[i])}

====
